---- MODULE Spec2Model ----
(***************************************************************************)
(* Watch-session trackers of the NYU feed video study.                     *)
(*                                                                         *)
(* The tracker variants share one state machine:                           *)
(*   "dom"   GA4 tracker on a DOM <video>        (src/unnamed/part_000)    *)
(*   "yt"    GA4 tracker on a YouTube iframe     (src/unnamed/part_001)    *)
(*   "mongo" database-backed YouTube tracker     (src/js/mongo-feed-...)   *)
(*   "api"   database-backed tracking functions  (src/unnamed/part_000,    *)
(*           window.MongoVideoTracker, called by the page)                 *)
(* The variant is fixed when the page loads.  A handler of the code is an  *)
(* operator from a world (the page's state) to the world it leaves behind; *)
(* an action is one task of the browser's event loop: a transition of the  *)
(* playback source together with the callbacks it runs, a timer, a user    *)
(* gesture or a page-lifecycle signal.                                     *)
(*                                                                         *)
(* Times are integers in milliseconds.  totalWatchTimeSeconds is held in   *)
(* milliseconds too (the code's value times 1000), so that the code's      *)
(* x / 1000 stays exact; Math.round(x / 1000) is Round(x, MsPerSecond).    *)
(***************************************************************************)
EXTENDS Integers, Sequences, FiniteSets, TLC

\* ------------------------------------------------------------------ bounds
Tick       == 750   \* Date.now() is read in multiples of Tick milliseconds
MaxTicks   == 2     \* Date.now() reads Tick, 2 * Tick, ..., MaxTicks * Tick
VideoLen   == 4     \* true length of the video in seconds; positions 0..VideoLen
MaxPlays   == 2     \* play notifications the source delivers while tracking
MaxUnloads == 2     \* final summaries the database trackers are asked for
MaxTracked == 3     \* calls of GALite.track in a run of the GA4 client
MaxEvents  == 3     \* events built by sendEvent in a run of MongoTracker
MaxBatches == 4     \* batch requests sent in a run of MongoTracker

\* ------------------------------------------------------- program constants
MsPerSecond == 1000
BATCH_SIZE == 10
MAX_RETRIES == 3
NULL == -1          \* JavaScript null in a field that otherwise holds a time >= 0
NoValue == "null"   \* JavaScript null in a field that otherwise holds a string

Variants   == {"dom", "yt", "mongo", "api"}
Milestones == {25, 50, 75, 100}
\* the event names of which the model keeps the sink's count
Counted == {"video_start", "video_play", "video_session_complete",
            "feed_video_start", "feed_video_summary"}

Max(a, b) == IF a >= b THEN a ELSE b
Min(a, b) == IF a <= b THEN a ELSE b
\* Math.round(x / d) for d > 0: floor(x / d + 1/2)
Round(x, d) == (2 * x + d) \div (2 * d)
\* maxProgressReached is held as the code's value times Scale(duration), and a
\* progress percentage (position / duration * 100) as position * 100, which is
\* the percentage times the duration: both stay exact integers.
Scale(duration) == IF duration > 0 THEN duration ELSE 1

VARIABLES
    variant,       \* which tracker file the page loaded
    source,        \* the Playback Source: <video> element or YT player
    sessionState,  \* sessionState (GA4 trackers) / videoState (database tracker)
    videoState,    \* videoState of window.MongoVideoTracker ("api")
    timers,        \* pending setTimeout callbacks and the tap overlay
    sink,          \* the Event Sink's log, as counts of the calls received
    ghost,         \* history: repeated teardown signals, the play intervals as the source lived them
    ga,            \* window.GALite, its pending retry timers and the calls of gtag
    mt             \* window.MongoTracker, its requests in flight and what the backend accepted

vars == <<variant, source, sessionState, videoState, timers, sink, ghost, ga, mt>>

\* The page's state as one record, as the handlers of one task see it; t is
\* what Date.now() returns during the task.
WorldAt(t) == [now |-> t, source |-> source, sessionState |-> sessionState,
               videoState |-> videoState, timers |-> timers, sink |-> sink,
               out |-> <<>>]

\* Date.now(): any reading within the bounds, later or (the wall clock having
\* been set back) earlier than the reading before it
Times == {Tick * k : k \in 1..MaxTicks}

\* the world of a task that does not read the clock
World == WorldAt(Tick)

Commit(w) ==
    /\ source' = w.source
    /\ sessionState' = w.sessionState
    /\ videoState' = w.videoState
    /\ timers' = w.timers
    /\ sink' = w.sink
    /\ ga' = ga
    /\ mt' = mt

\* ------------------------------------------------------------- event sink
\* window.GALite.track(name, payload) / window.MongoTracker.track(name, payload).
\* The call is appended to the calls of the running task (w.out); of the sink's
\* log the state keeps the number of calls per event name, for the names in
\* Counted, and per milestone for the progress events.
Track(w, name, payload) ==
    [w EXCEPT !.out = Append(@, [name |-> name, payload |-> payload]),
              !.sink.count = IF name \in Counted
                             THEN [@ EXCEPT ![name] = @ + 1] ELSE @]

\* a video_progress / feed_video_progress call, also counted per milestone
TrackProgress(w, name, m, payload) ==
    [Track(w, name, payload) EXCEPT !.sink.progress[m] = @ + 1]

\* the calls of event `name` among the calls of a task
Calls(w, name) == SelectSeq(w.out, LAMBDA c : c.name = name)

\* JavaScript truthiness of a timestamp: null and 0 are falsy
Falsy(x) == x = NULL \/ x = 0

\* Array.from(set).sort((a,b) => a-b)
RECURSIVE SortedSeq(_)
SortedSeq(S) ==
    IF S = {} THEN <<>>
    ELSE LET m == CHOOSE x \in S : \A y \in S : x <= y
         IN <<m>> \o SortedSeq(S \ {m})

\* a JavaScript number that may be the outcome of a division by zero
Finite(n) == [kind |-> "finite", value |-> n]
NaN       == [kind |-> "NaN", value |-> 0]
Infinity  == [kind |-> "Infinity", value |-> 0]

\* Math.round(maxProgressReached / duration * 100) as JavaScript computes it:
\* 0 / 0 is NaN, x / 0 is Infinity; x is held times Scale(duration)
RoundPercentOf(x, duration) ==
    IF duration = 0 THEN (IF x = 0 THEN NaN ELSE Infinity)
    ELSE Finite(Round(x * 100, duration * duration))

\* ===================================================== GA4 DOM-video tracker
\* src/unnamed/part_000, lines 138-582

\* sendMilestoneEvent(percentage)
Dom_sendMilestoneEvent(w, percentage) ==
    TrackProgress(w, "video_progress", percentage,
        [progress_percentage |-> percentage,
         current_time_seconds |-> w.source.currentTime,
         play_count_at_milestone |-> w.sessionState.playCount,
         total_watch_time_so_far |->
             Round(w.sessionState.totalWatchTimeSeconds, MsPerSecond)])

\* the iteration without the test !milestonesReached.has(milestone)
Dom_checkOne_NoMembership(w, milestone, progressPercent) ==
    IF progressPercent >= milestone * w.sessionState.duration
    THEN Dom_sendMilestoneEvent(
             [w EXCEPT !.sessionState.milestonesReached = @ \cup {milestone}],
             milestone)
    ELSE w

\* one iteration of [25, 50, 75].forEach in checkMilestones
Dom_checkOne(w, milestone, progressPercent) ==
    IF progressPercent >= milestone * w.sessionState.duration
       /\ milestone \notin w.sessionState.milestonesReached
    THEN Dom_sendMilestoneEvent(
             [w EXCEPT !.sessionState.milestonesReached = @ \cup {milestone}],
             milestone)
    ELSE w

\* the checkMilestones closure, run by its timer
Dom_checkMilestones(w) ==
    IF ~w.sessionState.isTrackingEnabled THEN w
    ELSE LET progressPercent == w.source.currentTime * 100
             w1 == IF progressPercent > w.sessionState.maxProgressReached
                   THEN [w EXCEPT !.sessionState.maxProgressReached = progressPercent]
                   ELSE w
             w2 == Dom_checkOne(Dom_checkOne(Dom_checkOne(w1, 25, progressPercent),
                                             50, progressPercent), 75, progressPercent)
         IN IF w2.source.state = "playing"
            THEN [w2 EXCEPT !.timers.poll = @ + 1]
            ELSE w2

\* setupMilestoneTracking without the test duration <= 0
Dom_setupMilestoneTracking_NoDurationTest(w) ==
    [w EXCEPT !.timers.poll = @ + 1]

\* setupMilestoneTracking()
Dom_setupMilestoneTracking(w) ==
    IF w.sessionState.duration <= 0 THEN w
    ELSE [w EXCEPT !.timers.poll = @ + 1]

\* handleVideoPause(), the 'pause' listener
Dom_handleVideoPause(w) ==
    IF ~w.sessionState.isTrackingEnabled \/ Falsy(w.sessionState.currentPlayStartTime)
    THEN w
    ELSE LET watchTimeMs == w.now - w.sessionState.currentPlayStartTime
             w1 == [w EXCEPT !.sessionState.totalWatchTimeSeconds = @ + Max(0, watchTimeMs),
                             !.sessionState.currentPlayStartTime = NULL]
         IN Track(w1, "video_pause",
                [current_time |-> w1.source.currentTime,
                 session_watch_time |-> Round(watchTimeMs, MsPerSecond),
                 total_watch_time |->
                     Round(w1.sessionState.totalWatchTimeSeconds, MsPerSecond)])

\* video.pause(): a playing element pauses and its 'pause' listener runs
Dom_pause(w) ==
    IF w.source.state = "playing"
    THEN Dom_handleVideoPause([w EXCEPT !.source.state = "paused"])
    ELSE w

\* handleVideoPlay without the test !hasStartedOnce around video_start
Dom_handleVideoPlay_AlwaysStart(w) ==
    IF ~w.sessionState.isTrackingEnabled THEN Dom_pause(w)
    ELSE LET w1 == [w EXCEPT !.sessionState.playCount = @ + 1,
                             !.sessionState.currentPlayStartTime = w.now]
             w2 == Dom_setupMilestoneTracking(
                       Track([w1 EXCEPT !.sessionState.hasStartedOnce = TRUE],
                             "video_start",
                             [video_duration |-> w1.sessionState.duration,
                              play_count |-> w1.sessionState.playCount]))
         IN Track(w2, "video_play",
                [current_time |-> w2.source.currentTime,
                 play_count |-> w2.sessionState.playCount,
                 is_replay |-> w2.sessionState.playCount > 1])

\* handleVideoPlay(), the 'play' listener
Dom_handleVideoPlay(w) ==
    IF ~w.sessionState.isTrackingEnabled THEN Dom_pause(w)
    ELSE LET w1 == [w EXCEPT !.sessionState.playCount = @ + 1,
                             !.sessionState.currentPlayStartTime = w.now]
             w2 == IF ~w1.sessionState.hasStartedOnce
                   THEN Dom_setupMilestoneTracking(
                            Track([w1 EXCEPT !.sessionState.hasStartedOnce = TRUE],
                                  "video_start",
                                  [video_duration |-> w1.sessionState.duration,
                                   play_count |-> w1.sessionState.playCount]))
                   ELSE w1
         IN Track(w2, "video_play",
                [current_time |-> w2.source.currentTime,
                 play_count |-> w2.sessionState.playCount,
                 is_replay |-> w2.sessionState.playCount > 1])

\* handleVideoEnd(), the 'ended' listener
Dom_handleVideoEnd(w) ==
    IF ~w.sessionState.isTrackingEnabled THEN w
    ELSE LET w1 == [w EXCEPT !.sessionState.completionCount = @ + 1]
             w2 == IF 100 \notin w1.sessionState.milestonesReached
                   THEN Dom_sendMilestoneEvent(
                            [w1 EXCEPT !.sessionState.milestonesReached = @ \cup {100}],
                            100)
                   ELSE w1
         IN [w2 EXCEPT !.sessionState.currentPlayStartTime = NULL]

\* handleTimeUpdate(), the 'timeupdate' listener
Dom_handleTimeUpdate(w) ==
    IF ~w.sessionState.isTrackingEnabled THEN w
    ELSE LET currentTime == w.source.currentTime
         IN IF currentTime > w.sessionState.maxWatched
            THEN [w EXCEPT !.sessionState.maxWatched = currentTime,
                           !.sessionState.maxProgressReached =
                               Max(@, currentTime * Scale(w.sessionState.duration))]
            ELSE w

\* handleVolumeChange without the test wasMuted !== isMuted
Dom_handleVolumeChange_Level(w) ==
    LET w1 == [w EXCEPT !.sessionState.isMuted = w.source.muted]
    IN Track(w1, "video_mute_toggle",
           [is_muted |-> w1.sessionState.isMuted,
            current_time |-> w1.source.currentTime])

\* handleVolumeChange(), the 'volumechange' listener
Dom_handleVolumeChange(w) ==
    LET wasMuted == w.sessionState.isMuted
        w1 == [w EXCEPT !.sessionState.isMuted = w.source.muted]
    IN IF wasMuted # w1.sessionState.isMuted
       THEN Track(w1, "video_mute_toggle",
                [is_muted |-> w1.sessionState.isMuted,
                 current_time |-> w1.source.currentTime])
       ELSE w1

\* video.muted = m followed by the 'volumechange' listener when the value changed;
\* the code writes sessionState.isMuted = m before the listener runs
Dom_setMuted(w, m) ==
    LET w1 == [w EXCEPT !.source.muted = m, !.sessionState.isMuted = m]
    IN IF w.source.muted # m THEN Dom_handleVolumeChange(w1) ELSE w1

\* video.play(): the element starts playing (from the start when it had ended)
\* and its 'play' listener runs
Dom_play(w) ==
    IF w.source.state = "playing" THEN w
    ELSE Dom_handleVideoPlay(
             [w EXCEPT !.source.state = "playing",
                       !.source.currentTime =
                           IF w.source.state = "ended" THEN 0 ELSE @])

\* startVideoWithAutoplay(); played: whether the play promise resolves
Dom_startVideoWithAutoplay(w, played) ==
    IF ~w.sessionState.isTrackingEnabled THEN w
    ELSE LET w1 == Dom_setMuted(w, TRUE)
         IN IF played
            THEN [Dom_play(w1) EXCEPT !.timers.unmute = TRUE]
            ELSE w1

\* enableTracking()
Dom_enableTracking(w, played) ==
    Dom_startVideoWithAutoplay(
        [w EXCEPT !.sessionState.isTrackingEnabled = TRUE], played)

\* the setTimeout callback of startVideoWithAutoplay that unmutes
Dom_unmuteTimer(w) == Dom_setMuted(w, FALSE)

\* toggleMute()
Dom_toggleMute(w) == Dom_setMuted(w, ~w.source.muted)

\* the final report without the test finalWatchTimeSeconds > 0
Dom_finalReport_AlwaysSend(w1) ==
    LET s == w1.sessionState
        w2 == IF ~Falsy(s.currentPlayStartTime)
              THEN [w1 EXCEPT !.sessionState.totalWatchTimeSeconds =
                                  @ + Max(0, w1.now - s.currentPlayStartTime)]
              ELSE w1
        t == w2.sessionState
        finalWatchTimeSeconds == Round(t.totalWatchTimeSeconds, MsPerSecond)
        completionRate100 ==
            IF t.duration > 0
            THEN Round(Min(100 * t.duration * t.duration, t.maxProgressReached * 100),
                       t.duration * t.duration)
            ELSE 0
    IN IF TRUE
       THEN Track(w2, "video_session_complete",
                [total_watch_time_seconds |-> finalWatchTimeSeconds,
                 play_count |-> t.playCount,
                 completion_count |-> t.completionCount,
                 milestones_reached |-> SortedSeq(t.milestonesReached),
                 milestone_25_reached |-> 25 \in t.milestonesReached,
                 milestone_50_reached |-> 50 \in t.milestonesReached,
                 milestone_75_reached |-> 75 \in t.milestonesReached,
                 milestone_100_reached |-> 100 \in t.milestonesReached,
                 max_progress_percent |->
                     RoundPercentOf(t.maxProgressReached, t.duration),
                 video_duration |-> t.duration,
                 completion_rate_percent |-> completionRate100])
       ELSE w2

\* reportFinalResults past its guard and its flag: the trailing interval, the
\* statistics and the video_session_complete call
Dom_finalReport(w1) ==
    LET s == w1.sessionState
        w2 == IF ~Falsy(s.currentPlayStartTime)
              THEN [w1 EXCEPT !.sessionState.totalWatchTimeSeconds =
                                  @ + Max(0, w1.now - s.currentPlayStartTime)]
              ELSE w1
        t == w2.sessionState
        finalWatchTimeSeconds == Round(t.totalWatchTimeSeconds, MsPerSecond)
        completionRate100 ==
            IF t.duration > 0
            THEN Round(Min(100 * t.duration * t.duration, t.maxProgressReached * 100),
                       t.duration * t.duration)
            ELSE 0
    IN IF finalWatchTimeSeconds > 0
       THEN Track(w2, "video_session_complete",
                [total_watch_time_seconds |-> finalWatchTimeSeconds,
                 play_count |-> t.playCount,
                 completion_count |-> t.completionCount,
                 milestones_reached |-> SortedSeq(t.milestonesReached),
                 milestone_25_reached |-> 25 \in t.milestonesReached,
                 milestone_50_reached |-> 50 \in t.milestonesReached,
                 milestone_75_reached |-> 75 \in t.milestonesReached,
                 milestone_100_reached |-> 100 \in t.milestonesReached,
                 max_progress_percent |->
                     RoundPercentOf(t.maxProgressReached, t.duration),
                 video_duration |-> t.duration,
                 completion_rate_percent |-> completionRate100])
       ELSE w2

\* reportFinalResults without the assignment hasReportedFinalResults = true
Dom_reportFinalResults_NoFlag(w) ==
    LET s == w.sessionState
    IN IF ~s.isTrackingEnabled \/ ~s.hasStartedOnce \/ s.hasReportedFinalResults
       THEN w
       ELSE Dom_finalReport(w)

\* reportFinalResults, the closure of setupUnloadTracking
Dom_reportFinalResults(w) ==
    LET s == w.sessionState
    IN IF ~s.isTrackingEnabled \/ ~s.hasStartedOnce \/ s.hasReportedFinalResults
       THEN w
       ELSE Dom_finalReport([w EXCEPT !.sessionState.hasReportedFinalResults = TRUE])

\* ================================================== GA4 YouTube-iframe tracker
\* src/unnamed/part_001

\* trackVideoEvent(eventName, parameters)
YT_trackVideoEvent(w, eventName, parameters) == Track(w, eventName, parameters)

\* sendMilestoneEvent(percentage)
YT_sendMilestoneEvent(w, percentage) ==
    TrackProgress(w, "video_progress", percentage,
        [progress_percentage |-> percentage,
         current_time_seconds |-> w.source.currentTime,
         play_count_at_milestone |-> w.sessionState.playCount,
         total_watch_time_so_far |->
             Round(w.sessionState.totalWatchTimeSeconds, MsPerSecond)])

\* one iteration of [25, 50, 75].forEach in checkMilestones
YT_checkOne(w, milestone, progressPercent) ==
    IF progressPercent >= milestone * w.sessionState.duration
       /\ milestone \notin w.sessionState.milestonesReached
    THEN YT_sendMilestoneEvent(
             [w EXCEPT !.sessionState.milestonesReached = @ \cup {milestone}],
             milestone)
    ELSE w

\* the checkMilestones closure, run by its timer
YT_checkMilestones(w) ==
    IF ~w.sessionState.isTrackingEnabled THEN w
    ELSE LET progressPercent == w.source.currentTime * 100
             w1 == IF progressPercent > w.sessionState.maxProgressReached
                   THEN [w EXCEPT !.sessionState.maxProgressReached = progressPercent]
                   ELSE w
             w2 == YT_checkOne(YT_checkOne(YT_checkOne(w1, 25, progressPercent),
                                           50, progressPercent), 75, progressPercent)
         IN IF w2.source.state = "playing"
            THEN [w2 EXCEPT !.timers.poll = @ + 1]
            ELSE w2

\* setupMilestoneTracking()
YT_setupMilestoneTracking(w) ==
    IF w.sessionState.duration <= 0 THEN w
    ELSE [w EXCEPT !.timers.poll = @ + 1]

\* handleVideoPlay that builds the video_play payload before playCount++
YT_handleVideoPlay_StaleCount(w, currentTime) ==
    LET w1 == [w EXCEPT !.sessionState.playCount = @ + 1,
                        !.sessionState.currentPlayStartTime = w.now]
        w2 == IF ~w1.sessionState.hasStartedOnce
              THEN YT_setupMilestoneTracking(
                       YT_trackVideoEvent(
                           [w1 EXCEPT !.sessionState.hasStartedOnce = TRUE],
                           "video_start",
                           [video_duration |-> w1.sessionState.duration,
                            play_count |-> w1.sessionState.playCount]))
              ELSE w1
    IN YT_trackVideoEvent(w2, "video_play",
           [current_time |-> currentTime,
            play_count |-> w.sessionState.playCount,
            is_replay |-> w.sessionState.playCount > 1])

\* handleVideoPlay(currentTime) calling setupMilestoneTracking() on every play
YT_handleVideoPlay_SetupEachPlay(w, currentTime) ==
    LET w1 == [w EXCEPT !.sessionState.playCount = @ + 1,
                        !.sessionState.currentPlayStartTime = w.now]
        w2 == IF ~w1.sessionState.hasStartedOnce
              THEN YT_trackVideoEvent(
                       [w1 EXCEPT !.sessionState.hasStartedOnce = TRUE],
                       "video_start",
                       [video_duration |-> w1.sessionState.duration,
                        play_count |-> w1.sessionState.playCount])
              ELSE w1
    IN YT_trackVideoEvent(YT_setupMilestoneTracking(w2), "video_play",
           [current_time |-> currentTime,
            play_count |-> w2.sessionState.playCount,
            is_replay |-> w2.sessionState.playCount > 1])

\* handleVideoPlay(currentTime)
YT_handleVideoPlay(w, currentTime) ==
    LET w1 == [w EXCEPT !.sessionState.playCount = @ + 1,
                        !.sessionState.currentPlayStartTime = w.now]
        w2 == IF ~w1.sessionState.hasStartedOnce
              THEN YT_setupMilestoneTracking(
                       YT_trackVideoEvent(
                           [w1 EXCEPT !.sessionState.hasStartedOnce = TRUE],
                           "video_start",
                           [video_duration |-> w1.sessionState.duration,
                            play_count |-> w1.sessionState.playCount]))
              ELSE w1
    IN YT_trackVideoEvent(w2, "video_play",
           [current_time |-> currentTime,
            play_count |-> w2.sessionState.playCount,
            is_replay |-> w2.sessionState.playCount > 1])

\* handleVideoPause(currentTime) without the test of currentPlayStartTime
\* (Date.now() - null is Date.now())
YT_handleVideoPause_NoOpenTest(w, currentTime) ==
    LET cps == w.sessionState.currentPlayStartTime
        watchTimeMs == w.now - (IF Falsy(cps) THEN 0 ELSE cps)
        w1 == [w EXCEPT !.sessionState.totalWatchTimeSeconds = @ + Max(0, watchTimeMs),
                        !.sessionState.currentPlayStartTime = NULL]
    IN YT_trackVideoEvent(w1, "video_pause",
           [current_time |-> currentTime,
            session_watch_time |-> Round(watchTimeMs, MsPerSecond),
            total_watch_time |->
                Round(w1.sessionState.totalWatchTimeSeconds, MsPerSecond)])

\* handleVideoPause(currentTime) without Math.max(0, ...) around the addition
YT_handleVideoPause_NoClamp(w, currentTime) ==
    IF Falsy(w.sessionState.currentPlayStartTime) THEN w
    ELSE LET watchTimeMs == w.now - w.sessionState.currentPlayStartTime
             w1 == [w EXCEPT !.sessionState.totalWatchTimeSeconds = @ + watchTimeMs,
                             !.sessionState.currentPlayStartTime = NULL]
         IN YT_trackVideoEvent(w1, "video_pause",
                [current_time |-> currentTime,
                 session_watch_time |-> Round(watchTimeMs, MsPerSecond),
                 total_watch_time |->
                     Round(w1.sessionState.totalWatchTimeSeconds, MsPerSecond)])

\* handleVideoPause(currentTime)
YT_handleVideoPause(w, currentTime) ==
    IF Falsy(w.sessionState.currentPlayStartTime) THEN w
    ELSE LET watchTimeMs == w.now - w.sessionState.currentPlayStartTime
             w1 == [w EXCEPT !.sessionState.totalWatchTimeSeconds = @ + Max(0, watchTimeMs),
                             !.sessionState.currentPlayStartTime = NULL]
         IN YT_trackVideoEvent(w1, "video_pause",
                [current_time |-> currentTime,
                 session_watch_time |-> Round(watchTimeMs, MsPerSecond),
                 total_watch_time |->
                     Round(w1.sessionState.totalWatchTimeSeconds, MsPerSecond)])

\* handleVideoEnd(currentTime) without the test !milestonesReached.has(100)
YT_handleVideoEnd_NoMembership(w, currentTime) ==
    LET w1 == [w EXCEPT !.sessionState.completionCount = @ + 1]
        w2 == YT_sendMilestoneEvent(
                  [w1 EXCEPT !.sessionState.milestonesReached = @ \cup {100}], 100)
    IN [w2 EXCEPT !.sessionState.currentPlayStartTime = NULL]

\* handleVideoEnd(currentTime)
YT_handleVideoEnd(w, currentTime) ==
    LET w1 == [w EXCEPT !.sessionState.completionCount = @ + 1]
        w2 == IF 100 \notin w1.sessionState.milestonesReached
              THEN YT_sendMilestoneEvent(
                       [w1 EXCEPT !.sessionState.milestonesReached = @ \cup {100}],
                       100)
              ELSE w1
    IN [w2 EXCEPT !.sessionState.currentPlayStartTime = NULL]

\* onPlayerStateChange without the test !isTrackingEnabled
YT_onPlayerStateChange_NoGate(w, data) ==
    LET currentTime == w.source.currentTime
    IN CASE data = "playing" -> YT_handleVideoPlay(w, currentTime)
         [] data = "paused"  -> YT_handleVideoPause(w, currentTime)
         [] data = "ended"   -> YT_handleVideoEnd(w, currentTime)
         [] OTHER            -> w

\* onPlayerStateChange(event), event.data = data; player.pauseVideo() of the
\* disabled branch pauses the player, whose PAUSED notification returns at once
YT_onPlayerStateChange(w, data) ==
    IF ~w.sessionState.isTrackingEnabled
    THEN IF data = "playing" THEN [w EXCEPT !.source.state = "paused"] ELSE w
    ELSE LET currentTime == w.source.currentTime
         IN CASE data = "playing" -> YT_handleVideoPlay(w, currentTime)
              [] data = "paused"  -> YT_handleVideoPause(w, currentTime)
              [] data = "ended"   -> YT_handleVideoEnd(w, currentTime)
              [] OTHER            -> w

\* player.playVideo(): the player starts playing (from the start when it had
\* ended) and notifies PLAYING
YT_playVideo(w) ==
    IF w.source.state = "playing" THEN w
    ELSE YT_onPlayerStateChange(
             [w EXCEPT !.source.state = "playing",
                       !.source.currentTime =
                           IF w.source.state = "ended" THEN 0 ELSE @],
             "playing")

\* startVideoWithAutoplay(); played: whether playVideo() starts playback
YT_startVideoWithAutoplay(w, played) ==
    LET w1 == [w EXCEPT !.source.muted = TRUE]
        w2 == IF played THEN YT_playVideo(w1) ELSE w1
    IN [w2 EXCEPT !.timers.unmute = TRUE]

\* the click listener of waitForTapToStart
YT_tapToStart(w) ==
    [w EXCEPT !.sessionState.isTrackingEnabled = TRUE, !.timers.start = TRUE]

\* the setTimeout callback of startVideoWithAutoplay that unmutes
YT_unmuteTimer(w) == [w EXCEPT !.source.muted = FALSE]

\* toggleMute()
YT_toggleMute(w) ==
    LET w1 == [w EXCEPT !.source.muted = ~@]
    IN YT_trackVideoEvent(w1, "video_mute_toggle",
           [is_muted |-> w1.source.muted,
            current_time |-> w1.source.currentTime])

\* reportFinalResults past its guard and its flag: the trailing interval, the
\* statistics and the video_session_complete call
YT_finalReport(w1) ==
    LET s == w1.sessionState
        w2 == IF ~Falsy(s.currentPlayStartTime)
              THEN [w1 EXCEPT !.sessionState.totalWatchTimeSeconds =
                                  @ + Max(0, w1.now - s.currentPlayStartTime)]
              ELSE w1
        t == w2.sessionState
        finalWatchTimeSeconds == Round(t.totalWatchTimeSeconds, MsPerSecond)
        completionRate100 ==
            IF t.duration > 0
            THEN Round(Min(100 * t.duration * t.duration, t.maxProgressReached * 100),
                       t.duration * t.duration)
            ELSE 0
    IN IF finalWatchTimeSeconds > 0
       THEN YT_trackVideoEvent(w2, "video_session_complete",
                [total_watch_time_seconds |-> finalWatchTimeSeconds,
                 play_count |-> t.playCount,
                 completion_count |-> t.completionCount,
                 milestones_reached |-> SortedSeq(t.milestonesReached),
                 milestone_25_reached |-> 25 \in t.milestonesReached,
                 milestone_50_reached |-> 50 \in t.milestonesReached,
                 milestone_75_reached |-> 75 \in t.milestonesReached,
                 milestone_100_reached |-> 100 \in t.milestonesReached,
                 max_progress_percent |->
                     RoundPercentOf(t.maxProgressReached, t.duration),
                 video_duration |-> t.duration,
                 completion_rate_percent |-> completionRate100])
       ELSE w2

\* reportFinalResults whose guard does not test hasReportedFinalResults
YT_reportFinalResults_NoReportedTest(w) ==
    LET s == w.sessionState
    IN IF ~s.isTrackingEnabled \/ ~s.hasStartedOnce
       THEN w
       ELSE YT_finalReport([w EXCEPT !.sessionState.hasReportedFinalResults = TRUE])

\* reportFinalResults, the closure of setupUnloadTracking
YT_reportFinalResults(w) ==
    LET s == w.sessionState
    IN IF ~s.isTrackingEnabled \/ ~s.hasStartedOnce \/ s.hasReportedFinalResults
       THEN w
       ELSE YT_finalReport([w EXCEPT !.sessionState.hasReportedFinalResults = TRUE])

\* ============================================ database-backed YouTube tracker
\* src/js/mongo-feed-video-tracker.js; its videoState is held in sessionState,
\* its currentPlayStartTime is a playback position in seconds

\* trackVideoStart()
Mongo_trackVideoStart(w) ==
    Track(w, "feed_video_start", [video_duration |-> w.sessionState.duration])

\* trackWatchTime(totalSeconds)
Mongo_trackWatchTime(w, totalSeconds) ==
    Track(w, "feed_video_watch_time", [watch_time_seconds |-> totalSeconds])

\* trackVideoProgress(milestone)
Mongo_trackVideoProgress(w, milestone) ==
    IF milestone \in w.sessionState.milestonesReached THEN w
    ELSE TrackProgress(
             [w EXCEPT !.sessionState.milestonesReached = @ \cup {milestone}],
             "feed_video_progress", milestone,
             [milestone |-> milestone,
              current_time |-> w.source.currentTime,
              total_watch_time |->
                  Round(w.sessionState.totalWatchTimeSeconds, MsPerSecond)])

\* trackVideoComplete()
Mongo_trackVideoComplete(w) ==
    LET s == w.sessionState
        completionRate ==
            IF s.duration > 0
            THEN Round(s.totalWatchTimeSeconds * 100, s.duration * MsPerSecond)
            ELSE 0
    IN Track(w, "feed_video_complete",
           [total_watch_time_seconds |-> Round(s.totalWatchTimeSeconds, MsPerSecond),
            video_duration |-> s.duration,
            completion_rate |-> Min(100, completionRate),
            play_count |-> s.playCount,
            completion_count |-> s.completionCount,
            milestones_reached |-> SortedSeq(s.milestonesReached)])

\* trackVideoSummary()
Mongo_trackVideoSummary(w) ==
    LET s == w.sessionState
        completionRate ==
            IF s.duration > 0
            THEN Round(s.totalWatchTimeSeconds * 100, s.duration * MsPerSecond)
            ELSE 0
    IN Track(w, "feed_video_summary",
           [total_watch_time_seconds |-> Round(s.totalWatchTimeSeconds, MsPerSecond),
            video_duration |-> s.duration,
            completion_rate |-> Min(100, completionRate),
            play_count |-> s.playCount,
            completion_count |-> s.completionCount,
            milestones_reached |-> SortedSeq(s.milestonesReached),
            max_progress_reached |->
                Round(s.maxProgressReached, Scale(s.duration))])

\* one iteration of [25, 50, 75, 100].forEach in checkMilestones
Mongo_checkOne(w, milestone, progressPercent) ==
    IF progressPercent >= milestone
       /\ milestone \notin w.sessionState.milestonesReached
    THEN Mongo_trackVideoProgress(w, milestone)
    ELSE w

\* the checkMilestones closure, run by its timer
Mongo_checkMilestones(w) ==
    IF ~w.sessionState.isTrackingEnabled THEN w
    ELSE LET currentTime == w.source.currentTime
             progressPercent ==
                 IF w.sessionState.duration > 0
                 THEN Round(currentTime * 100, w.sessionState.duration)
                 ELSE 0
             scaled == currentTime * Scale(w.sessionState.duration)
             w1 == IF scaled > w.sessionState.maxProgressReached
                   THEN [w EXCEPT !.sessionState.maxProgressReached = scaled]
                   ELSE w
             w2 == Mongo_checkOne(Mongo_checkOne(Mongo_checkOne(Mongo_checkOne(
                       w1, 25, progressPercent), 50, progressPercent),
                       75, progressPercent), 100, progressPercent)
         IN IF w2.source.state = "playing"
            THEN [w2 EXCEPT !.timers.poll = @ + 1]
            ELSE w2

\* setupMilestoneTracking()
Mongo_setupMilestoneTracking(w) ==
    IF ~w.sessionState.isTrackingEnabled THEN w
    ELSE [w EXCEPT !.timers.poll = @ + 1]

\* onPlayerReady(event); known: whether getDuration() already returns the length
Mongo_onPlayerReady(w, known) ==
    Mongo_setupMilestoneTracking(
        [w EXCEPT !.sessionState.duration = IF known THEN VideoLen ELSE 0,
                  !.source.muted = TRUE,
                  !.source.ready = TRUE])

\* onPlayerStateChange(event), event.data = state
Mongo_onPlayerStateChange(w, state) ==
    IF ~w.sessionState.isTrackingEnabled THEN w
    ELSE LET s == w.sessionState
             currentTime == w.source.currentTime
         IN CASE state = "playing" ->
                   LET w1 == [w EXCEPT !.source.muted = FALSE]
                       w2 == IF ~s.hasStartedOnce
                             THEN Mongo_trackVideoStart(
                                      [w1 EXCEPT !.sessionState.hasStartedOnce = TRUE])
                             ELSE w1
                   IN [w2 EXCEPT !.sessionState.playCount = @ + 1,
                                 !.sessionState.currentPlayStartTime = currentTime]
              [] state = "paused" ->
                   IF s.currentPlayStartTime # NULL
                      /\ currentTime - s.currentPlayStartTime > 0
                   THEN LET w1 == [w EXCEPT
                                     !.sessionState.totalWatchTimeSeconds =
                                         @ + (currentTime - s.currentPlayStartTime)
                                             * MsPerSecond,
                                     !.sessionState.currentPlayStartTime = NULL]
                        IN Mongo_trackWatchTime(w1,
                               w1.sessionState.totalWatchTimeSeconds)
                   ELSE w
              [] state = "ended" ->
                   LET w1 == IF s.currentPlayStartTime # NULL
                             THEN [w EXCEPT
                                     !.sessionState.totalWatchTimeSeconds =
                                         @ + Max(0, currentTime - s.currentPlayStartTime)
                                             * MsPerSecond,
                                     !.sessionState.currentPlayStartTime = NULL]
                             ELSE w
                       w2 == [w1 EXCEPT
                                !.sessionState.completionCount = @ + 1,
                                !.sessionState.maxProgressReached =
                                    Max(@, currentTime * Scale(s.duration))]
                   IN Mongo_trackVideoComplete(w2)
              [] OTHER -> w

\* handleUnload(), the beforeunload and pagehide listener
Mongo_handleUnload(w) ==
    LET s == w.sessionState
    IN IF ~s.isTrackingEnabled \/ ~s.hasStartedOnce THEN w
       ELSE LET w1 == IF s.currentPlayStartTime # NULL
                      THEN [w EXCEPT !.sessionState.totalWatchTimeSeconds =
                                @ + Max(0, w.source.currentTime - s.currentPlayStartTime)
                                    * MsPerSecond]
                      ELSE w
            IN Mongo_trackVideoSummary(w1)

\* the visibilitychange listener of initTracking, run when document.hidden
Mongo_onVisibilityHidden(w) ==
    LET s == w.sessionState
    IN IF s.currentPlayStartTime # NULL
       THEN [w EXCEPT !.sessionState.totalWatchTimeSeconds =
                          @ + Max(0, w.source.currentTime - s.currentPlayStartTime)
                              * MsPerSecond,
                      !.sessionState.currentPlayStartTime = NULL]
       ELSE w

\* enableTracking(); played: whether playVideo() starts playback.  On a player
\* that is not ready unMute() throws and the catch block swallows it.
Mongo_enableTracking(w, played) ==
    LET w1 == [w EXCEPT !.sessionState.isTrackingEnabled = TRUE]
    IN IF ~w1.source.ready THEN w1
       ELSE LET w2 == [w1 EXCEPT !.source.muted = FALSE]
            IN IF played /\ w2.source.state # "playing"
               THEN Mongo_onPlayerStateChange(
                        [w2 EXCEPT !.source.state = "playing",
                                   !.source.currentTime =
                                       IF w2.source.state = "ended" THEN 0 ELSE @],
                        "playing")
               ELSE w2

\* ===================================== database-backed tracking functions
\* src/unnamed/part_000, lines 1-135: window.MongoVideoTracker

\* Array.prototype.includes
Includes(arr, x) == \E i \in 1..Len(arr) : arr[i] = x

\* trackVideoStart(videoDuration)
Api_trackVideoStart(w, videoDuration) ==
    IF ~w.videoState.isStarted
    THEN Track([w EXCEPT !.videoState.isStarted = TRUE,
                         !.videoState.videoStartTime = w.now],
               "video_start", [video_duration |-> videoDuration])
    ELSE w

\* trackVideoPlay(currentTime, videoDuration)
Api_trackVideoPlay(w, currentTime, videoDuration) ==
    Track([w EXCEPT !.videoState.isPlaying = TRUE],
          "video_play", [current_time |-> currentTime])

\* trackVideoPause(currentTime, videoDuration)
Api_trackVideoPause(w, currentTime, videoDuration) ==
    Track([w EXCEPT !.videoState.isPlaying = FALSE],
          "video_pause", [current_time |-> currentTime])

\* trackVideoProgress(milestone, currentTime, videoDuration)
Api_trackVideoProgress(w, milestone, currentTime, videoDuration) ==
    IF ~Includes(w.videoState.milestonesReached, milestone)
    THEN LET w1 == [w EXCEPT !.videoState.milestonesReached = Append(@, milestone),
                             !.videoState.lastMilestone = milestone]
         IN TrackProgress(w1, "video_progress", milestone,
                [milestone |-> milestone,
                 current_time |-> currentTime,
                 milestones_reached |-> w1.videoState.milestonesReached])
    ELSE w

\* trackVideoSessionComplete(totalWatchTime, videoDuration, milestonesReached)
Api_trackVideoSessionComplete(w, totalWatchTime, videoDuration) ==
    IF w.videoState.isStarted
    THEN Track(w, "video_session_complete",
             [total_watch_time_seconds |-> totalWatchTime,
              video_duration |-> videoDuration,
              milestones_reached |-> w.videoState.milestonesReached,
              milestone_25_reached |-> Includes(w.videoState.milestonesReached, 25),
              milestone_50_reached |-> Includes(w.videoState.milestonesReached, 50),
              milestone_75_reached |-> Includes(w.videoState.milestonesReached, 75),
              milestone_100_reached |-> Includes(w.videoState.milestonesReached, 100)])
    ELSE w

\* ================================================================ the page
Ga4 == variant \in {"dom", "yt"}

\* State after the tracker file has loaded and set itself up: initializeVideo and
\* setupVideoTracking ("dom"), onPlayerReady ("yt"), initTracking ("mongo", whose
\* player is created but not ready yet).  duration is what the source reported
\* at setup: the length, or 0 while the metadata is unknown.
Init ==
    /\ variant \in Variants
    /\ source = [state |-> "paused", currentTime |-> 0, muted |-> TRUE,
                 ready |-> variant \in {"dom", "yt"}]
    /\ \E d \in {0, VideoLen} :
          sessionState =
              [isTrackingEnabled |-> FALSE, hasStartedOnce |-> FALSE,
               hasReportedFinalResults |-> FALSE,
               totalWatchTimeSeconds |-> 0, currentPlayStartTime |-> NULL,
               duration |-> IF variant = "mongo" THEN 0 ELSE d,
               maxWatched |-> 0, playCount |-> 0, completionCount |-> 0,
               milestonesReached |-> {}, maxProgressReached |-> 0,
               isMuted |-> TRUE]
    /\ videoState = [isStarted |-> FALSE, isPlaying |-> FALSE,
                     milestonesReached |-> <<>>, videoStartTime |-> NULL,
                     lastMilestone |-> 0]
    /\ timers = [tapped |-> FALSE, start |-> FALSE, unmute |-> FALSE, poll |-> 0]
    /\ sink = [count |-> [e \in Counted |-> 0],
               progress |-> [m \in Milestones |-> 0]]
    /\ ghost = [repeated |-> FALSE, open |-> NULL, expected |-> 0,
                ended |-> FALSE, maxPos |-> 0, idlePause |-> FALSE]
    /\ ga = [hasGtag |-> FALSE, isLoaded |-> FALSE, tracked |-> <<>>,
             retry |-> <<>>, dataLayer |-> <<>>]
    /\ mt = [isInitialized |-> FALSE, participantId |-> NoValue,
             studyType |-> NoValue, sessionId |-> NoValue,
             eventQueue |-> <<>>, intervals |-> 0, unloadListeners |-> 0,
             events |-> <<>>, inflight |-> {}, delivered |-> <<>>,
             resent |-> <<>>, batches |-> 0, unloaded |-> FALSE]

\* History kept beside the program's state.
\* repeated: a teardown signal arrived after the final report was sent.
\* For the GA4 trackers, until the first ended notification or the final report,
\* the play intervals as the source lived them: an interval opens with the first
\* play notification handled while none is open and closes with the next pause
\* notification or with the final report; expected is the sum of
\* max(0, end - start) over the closed ones.
\* maxPos: the largest playback position, in seconds, read by a timeupdate
\* listener or a poll tick of a GA4 tracker past its isTrackingEnabled test.
\* idlePause: the task just run delivered a pause notification to an enabled
\* GA4 tracker that had no play interval open.
Note(task, t) ==
    LET s == sessionState
        played == sessionState'.playCount > s.playCount
        reports == ~s.hasReportedFinalResults /\ sessionState'.hasReportedFinalResults
        pauses == task \in {"pause", "settle"} /\ s.isTrackingEnabled
        closes == pauses \/ reports
        ends == ghost.ended \/ (task = "ended" /\ s.isTrackingEnabled)
        tracked == Ga4 /\ ~ends /\ ~s.hasReportedFinalResults
        positions == IF ~(Ga4 /\ s.isTrackingEnabled) THEN {}
                     ELSE IF variant = "dom" /\ task \in {"advance", "seek"}
                     THEN {source'.currentTime}
                     ELSE IF task = "poll" THEN {source.currentTime}
                     ELSE {}
    IN ghost' = [ghost EXCEPT
         !.repeated = @ \/ (task = "teardown" /\ Ga4
                              /\ s.hasReportedFinalResults),
         !.ended = Ga4 /\ ends,
         !.idlePause = Ga4 /\ pauses /\ Falsy(s.currentPlayStartTime),
         !.maxPos = IF positions = {} THEN @
                    ELSE Max(@, CHOOSE p \in positions : TRUE),
         !.open = IF ~tracked THEN NULL
                  ELSE IF played /\ @ = NULL THEN t
                  ELSE IF closes THEN NULL ELSE @,
         !.expected = IF ~tracked THEN 0
                      ELSE IF closes /\ ghost.open # NULL
                      THEN @ + Max(0, t - ghost.open) ELSE @]

\* the source may deliver one more play notification
CanPlay == sessionState.isTrackingEnabled => sessionState.playCount < MaxPlays

\* the readings of Date.now() a task may see; the database tracker reads none
ClockReads == IF Ga4 THEN Times ELSE {Tick}

\* the source notifies a state change to the tracker's listener
Notify(w, data) ==
    CASE variant = "dom" ->
           (CASE data = "playing" -> Dom_handleVideoPlay(w)
              [] data = "paused"  -> Dom_handleVideoPause(w)
              [] data = "ended"   -> Dom_handleVideoEnd(w)
              [] OTHER            -> w)
      [] variant = "yt"    -> YT_onPlayerStateChange(w, data)
      [] variant = "mongo" -> Mongo_onPlayerStateChange(w, data)

\* playback starts on the source itself (a click on the video, autoplay)
SourcePlay ==
    /\ source.ready /\ source.state \in {"paused", "ended"} /\ CanPlay
    /\ \E t \in ClockReads :
          /\ Commit(Notify([WorldAt(t) EXCEPT
                              !.source.state = "playing",
                              !.source.currentTime =
                                  IF source.state = "ended" THEN 0 ELSE @],
                           "playing"))
          /\ Note("play", t)
    /\ UNCHANGED variant

\* the viewer pauses the source
SourcePause ==
    /\ source.state = "playing"
    /\ \E t \in ClockReads :
          /\ Commit(Notify([WorldAt(t) EXCEPT !.source.state = "paused"], "paused"))
          /\ Note("pause", t)
    /\ UNCHANGED variant

\* playback reaches the end of the video; a <video> element may fire 'pause'
\* before 'ended' (HTML: "set paused to true, fire pause, fire ended"), older
\* engines and the YouTube player notify the end alone
SourceEnd ==
    /\ source.state = "playing" /\ source.currentTime = VideoLen
    /\ \E t \in ClockReads :
       \E pauseFirst \in (IF variant = "dom" THEN BOOLEAN ELSE {FALSE}) :
          LET w0 == [WorldAt(t) EXCEPT !.source.state = "ended"]
              w1 == IF pauseFirst THEN Notify(w0, "paused") ELSE w0
          IN /\ Commit(Notify(w1, "ended"))
             /\ Note("ended", t)
    /\ UNCHANGED variant

\* the playback position moves on by a second; a <video> element fires 'timeupdate'
SourceAdvance ==
    /\ source.state = "playing" /\ source.currentTime < VideoLen
    /\ LET w0 == [World EXCEPT !.source.currentTime = @ + 1]
       IN Commit(IF variant = "dom" THEN Dom_handleTimeUpdate(w0) ELSE w0)
    /\ Note("advance", Tick)
    /\ UNCHANGED variant

\* the viewer seeks (or the stream stalls, p = currentTime): a <video> element
\* fires 'timeupdate', a YouTube player notifies BUFFERING
SourceSeek ==
    /\ source.state = "playing"
    /\ \E p \in 0..VideoLen :
          LET w0 == [World EXCEPT !.source.currentTime = p]
          IN IF variant = "dom"
             THEN p # source.currentTime /\ Commit(Dom_handleTimeUpdate(w0))
             ELSE Commit(Notify([w0 EXCEPT !.source.state = "buffering"], "buffering"))
    /\ Note("seek", Tick)
    /\ UNCHANGED variant

\* the viewer seeks in a paused YouTube player, which notifies BUFFERING
SourcePausedSeek ==
    /\ variant = "yt" /\ source.ready /\ source.state = "paused"
    /\ \E p \in 0..VideoLen :
          Commit(Notify([World EXCEPT !.source.currentTime = p,
                                      !.source.state = "seeking"], "buffering"))
    /\ Note("seek", Tick)
    /\ UNCHANGED variant

\* the paused player has loaded the new position and notifies PAUSED again
SourceSettle ==
    /\ source.state = "seeking"
    /\ \E t \in ClockReads :
          /\ Commit(Notify([WorldAt(t) EXCEPT !.source.state = "paused"], "paused"))
          /\ Note("settle", t)
    /\ UNCHANGED variant

\* a buffering YouTube player resumes and notifies PLAYING
SourceResume ==
    /\ source.state = "buffering" /\ CanPlay
    /\ \E t \in ClockReads :
          /\ Commit(Notify([WorldAt(t) EXCEPT !.source.state = "playing"], "playing"))
          /\ Note("play", t)
    /\ UNCHANGED variant

\* the mute state is changed on the <video> element itself (native controls)
UserMute ==
    /\ variant = "dom"
    /\ Commit(Dom_handleVolumeChange([World EXCEPT !.source.muted = ~@]))
    /\ Note("usermute", Tick)
    /\ UNCHANGED variant

\* the page's mute button: VideoTracker.toggleMute()
ToggleMute ==
    /\ variant \in {"dom", "yt"}
    /\ Commit(IF variant = "dom" THEN Dom_toggleMute(World) ELSE YT_toggleMute(World))
    /\ Note("togglemute", Tick)
    /\ UNCHANGED variant

\* the click on the tap-to-start overlay
TapToStart ==
    /\ variant # "api" /\ ~timers.tapped
    /\ \E played \in BOOLEAN :
          LET w0 == [World EXCEPT !.timers.tapped = TRUE]
          IN CASE variant = "dom"   -> ~played /\ Commit([w0 EXCEPT !.timers.start = TRUE])
               [] variant = "yt"    -> ~played /\ Commit(YT_tapToStart(w0))
               [] variant = "mongo" -> Commit(Mongo_enableTracking(w0, played))
    /\ Note("tap", Tick)
    /\ UNCHANGED variant

\* the 500 ms timer set by the tap fires
StartTimer ==
    /\ timers.start
    /\ \E t \in ClockReads, played \in BOOLEAN :
          LET w0 == [WorldAt(t) EXCEPT !.timers.start = FALSE]
          IN /\ Commit(IF variant = "dom" THEN Dom_enableTracking(w0, played)
                       ELSE YT_startVideoWithAutoplay(w0, played))
             /\ Note("start", t)
    /\ UNCHANGED variant

\* the 1000 ms unmute timer of startVideoWithAutoplay fires
UnmuteTimer ==
    /\ timers.unmute
    /\ LET w0 == [World EXCEPT !.timers.unmute = FALSE]
       IN Commit(IF variant = "dom" THEN Dom_unmuteTimer(w0) ELSE YT_unmuteTimer(w0))
    /\ Note("unmute", Tick)
    /\ UNCHANGED variant

\* a pending checkMilestones timer fires
PollTick ==
    /\ timers.poll > 0
    /\ LET w0 == [World EXCEPT !.timers.poll = @ - 1]
       IN Commit(CASE variant = "dom"   -> Dom_checkMilestones(w0)
                   [] variant = "yt"    -> YT_checkMilestones(w0)
                   [] variant = "mongo" -> Mongo_checkMilestones(w0))
    /\ Note("poll", Tick)
    /\ UNCHANGED variant

\* the database tracker's player becomes ready
PlayerReady ==
    /\ variant = "mongo" /\ ~source.ready
    /\ \E known \in BOOLEAN : Commit(Mongo_onPlayerReady(World, known))
    /\ Note("ready", Tick)
    /\ UNCHANGED variant

\* a page-lifecycle signal reaches a GA4 tracker: the beforeunload, pagehide and
\* visibilitychange (document.hidden) listeners all run reportFinalResults
Teardown ==
    /\ Ga4
    /\ \E t \in Times :
          /\ Commit(IF variant = "dom" THEN Dom_reportFinalResults(WorldAt(t))
                    ELSE YT_reportFinalResults(WorldAt(t)))
          /\ Note("teardown", t)
    /\ UNCHANGED variant

\* beforeunload or pagehide reaches the database tracker
Unload ==
    /\ variant = "mongo"
    /\ sink.count["feed_video_summary"] < MaxUnloads
    /\ Commit(Mongo_handleUnload(World))
    /\ Note("teardown", Tick)
    /\ UNCHANGED variant

\* visibilitychange with document.hidden reaches the database tracker
VisibilityHidden ==
    /\ variant = "mongo"
    /\ Commit(Mongo_onVisibilityHidden(World))
    /\ Note("hidden", Tick)
    /\ UNCHANGED variant

\* the page calls a function of window.MongoVideoTracker
ApiCall ==
    /\ variant = "api"
    /\ \/ \E t \in Times : Commit(Api_trackVideoStart(WorldAt(t), VideoLen))
       \/ /\ sink.count["video_play"] < MaxPlays
          /\ \E p \in 0..VideoLen : Commit(Api_trackVideoPlay(World, p, VideoLen))
       \/ \E p \in 0..VideoLen : Commit(Api_trackVideoPause(World, p, VideoLen))
       \/ \E m \in Milestones, p \in 0..VideoLen :
             Commit(Api_trackVideoProgress(World, m, p, VideoLen))
       \/ /\ sink.count["video_session_complete"] < MaxUnloads
          /\ \E p \in 0..VideoLen :
                Commit(Api_trackVideoSessionComplete(World, p, VideoLen))
    /\ UNCHANGED <<variant, ghost>>

Next ==
    \/ ApiCall
    \/ SourcePlay
    \/ SourcePause
    \/ SourceEnd
    \/ SourceAdvance
    \/ SourceSeek
    \/ SourcePausedSeek
    \/ SourceSettle
    \/ SourceResume
    \/ UserMute
    \/ ToggleMute
    \/ TapToStart
    \/ StartTimer
    \/ UnmuteTimer
    \/ PollTick
    \/ PlayerReady
    \/ Teardown
    \/ Unload
    \/ VisibilityHidden

Spec == Init /\ [][Next]_vars

\* ================================================= the GA4 client, ga-lite.js
\* ga.hasGtag: window.gtag is a function; ga.isLoaded: window.GALite.isLoaded;
\* ga.tracked: the event names of the calls of GALite.track, in order, a call
\* being known by its index; ga.retry: the pending setTimeout(... , 100)
\* callbacks of track, oldest first; ga.dataLayer: the calls passed to
\* gtag('event', ...), in order.
TrackedNames == {"video_play", "video_session_complete"}

\* track() that gives up, instead of setting the timer, when GA4 is not loaded
GALite_track_Drop(g, i) ==
    IF ~g.isLoaded \/ ~g.hasGtag
    THEN g
    ELSE [g EXCEPT !.dataLayer = Append(@, i)]

\* track(eventName, parameters), for the call of index i
GALite_track(g, i) ==
    IF ~g.isLoaded \/ ~g.hasGtag
    THEN [g EXCEPT !.retry = Append(@, i)]
    ELSE [g EXCEPT !.dataLayer = Append(@, i)]

\* the trackers and the sink of the page stay as they are
PageIdle == UNCHANGED <<variant, source, sessionState, videoState, timers, sink, ghost, mt>>

\* initializeGA() up to the script element: window.gtag is defined
GA_Initialize ==
    /\ ~ga.hasGtag
    /\ ga' = [ga EXCEPT !.hasGtag = TRUE]
    /\ PageIdle

\* script.onload of gtag.js
GA_ScriptLoaded ==
    /\ ga.hasGtag /\ ~ga.isLoaded
    /\ ga' = [ga EXCEPT !.isLoaded = TRUE]
    /\ PageIdle

\* a tracker calls window.GALite.track(name, ...)
GA_Track ==
    /\ Len(ga.tracked) < MaxTracked
    /\ \E name \in TrackedNames :
          ga' = GALite_track([ga EXCEPT !.tracked = Append(@, name)],
                             Len(ga.tracked) + 1)
    /\ PageIdle

\* the oldest pending retry timer of track fires
GA_RetryTimer ==
    /\ ga.retry # <<>>
    /\ ga' = GALite_track([ga EXCEPT !.retry = Tail(@)], Head(ga.retry))
    /\ PageIdle

InitGALite == Init /\ variant = "dom" /\ sessionState.duration = VideoLen

NextGALite ==
    \/ GA_Initialize
    \/ GA_ScriptLoaded
    \/ GA_Track
    \/ GA_RetryTimer

\* the retry timers that track sets do fire
SpecGALite == InitGALite /\ [][NextGALite]_vars /\ WF_vars(GA_RetryTimer)

\* ===================================== the database client, mongo-tracker-base.js
\* mt.isInitialized, participantId, studyType, sessionId, eventQueue: the fields
\* of window.MongoTracker, an event of eventQueue being known by its index in
\* mt.events; mt.intervals: the setInterval(sendBatch) timers started (the
\* field batchTimer holds the last one); mt.unloadListeners: the beforeunload
\* listeners registered; mt.events: the event objects sendEvent built, in
\* order; mt.inflight: the requests sent and not answered; mt.delivered[e]:
\* the requests holding event e the backend answered with an ok status;
\* mt.resent[e]: the batch requests that held event e; mt.batches: the batch
\* requests sent; mt.unloaded: the page has gone.
MT_Names == {"feed_video_summary"}
ParticipantIds == {"p1"}
SessionIds == {"session_1", "session_2"}
StudyTypes == {"unknown"}

\* how a request ends: an ok response with a body json() reads; a status that
\* is not ok or a network error
Outcomes == {"ok", "failed"}

\* how often the call of index i occurs in a sequence of call indices
Occurrences(seq, i) == Cardinality({k \in 1..Len(seq) : seq[k] = i})

\* eventQueue.splice(index, 1)
RemoveAt(q, i) == SubSeq(q, 1, i - 1) \o SubSeq(q, i + 1, Len(q))

\* eventQueue.indexOf(event), 0 for -1
IndexOf(q, e) ==
    IF \E i \in 1..Len(q) : q[i] = e
    THEN CHOOSE i \in 1..Len(q) : q[i] = e /\ \A j \in 1..(i - 1) : q[j] # e
    ELSE 0

\* the backend's count of each event of a request it accepted
Accept(delivered, batch) ==
    [e \in 1..Len(delivered) |->
        delivered[e] + Occurrences(batch, e)]

\* sendEvent(eventName, properties) up to its await: the event is built,
\* pushed on eventQueue and posted alone
MT_sendEvent(m, name) ==
    LET e == Len(m.events) + 1
    IN [m EXCEPT !.events = Append(@, [event_name |-> name,
                                       participant_id |-> m.participantId,
                                       study_type |-> m.studyType,
                                       session_id |-> m.sessionId]),
                 !.eventQueue = Append(@, e),
                 !.inflight = @ \cup {[kind |-> "single", events |-> <<e>>]},
                 !.delivered = Append(@, 0),
                 !.resent = Append(@, 0)]

\* sendEvent after its await, for the post of event e
MT_sendEvent_response(m, e, outcome) ==
    LET r == [kind |-> "single", events |-> <<e>>]
        m1 == [m EXCEPT !.inflight = @ \ {r}]
        index == IndexOf(m.eventQueue, e)
    IN CASE outcome = "ok" ->
              [m1 EXCEPT !.delivered = Accept(@, r.events),
                         !.eventQueue = IF index > 0 THEN RemoveAt(@, index) ELSE @]
         [] OTHER -> m1

\* sendBatch() that does not put the events of a failed request back
MT_sendBatch_response_NoUnshift(m, r, outcome) ==
    LET m1 == [m EXCEPT !.inflight = @ \ {r}]
    IN CASE outcome = "ok" ->
              [m1 EXCEPT !.delivered = Accept(@, r.events)]
         [] OTHER -> m1

\* sendBatch() up to its await
MT_sendBatch(m) ==
    IF Len(m.eventQueue) = 0
    THEN m
    ELSE LET n == IF Len(m.eventQueue) < BATCH_SIZE
                  THEN Len(m.eventQueue) ELSE BATCH_SIZE
             batch == SubSeq(m.eventQueue, 1, n)
         IN [m EXCEPT !.eventQueue = SubSeq(@, n + 1, Len(@)),
                      !.batches = @ + 1,
                      !.inflight = @ \cup {[kind |-> "batch", events |-> batch]},
                      !.resent = [e \in 1..Len(@) |->
                                     @[e] + Occurrences(batch, e)]]

\* sendBatch() after its await, for the batch request r
MT_sendBatch_response(m, r, outcome) ==
    LET m1 == [m EXCEPT !.inflight = @ \ {r}]
    IN CASE outcome = "ok" ->
              [m1 EXCEPT !.delivered = Accept(@, r.events)]
         [] OTHER -> [m1 EXCEPT !.eventQueue = r.events \o @]

\* initialize(studyType) without the isInitialized test
MT_initialize_NoGuard(m, studyType, pid, detected, sid) ==
    LET m1 == [m EXCEPT
                 !.participantId = IF @ # NoValue THEN @ ELSE pid,
                 !.studyType = IF studyType # NoValue THEN studyType ELSE detected,
                 !.sessionId = sid,
                 !.isInitialized = TRUE,
                 !.intervals = @ + 1]
        m2 == MT_sendEvent(MT_sendEvent(m1, "page_view"), "session_start")
    IN [m2 EXCEPT !.unloadListeners = @ + 1]

\* initialize(studyType): pid is what the URL or the prompt gives
\* getParticipantId, detected what detectStudyType returns, sid what
\* generateSessionId returns
MT_initialize(m, studyType, pid, detected, sid) ==
    IF m.isInitialized
    THEN m
    ELSE LET m1 == [m EXCEPT
                      !.participantId = IF @ # NoValue THEN @ ELSE pid,
                      !.studyType = IF studyType # NoValue THEN studyType ELSE detected,
                      !.sessionId = sid,
                      !.isInitialized = TRUE,
                      !.intervals = @ + 1]
             m2 == MT_sendEvent(MT_sendEvent(m1, "page_view"), "session_start")
         IN [m2 EXCEPT !.unloadListeners = @ + 1]

\* track(eventName, properties)
MT_track(m, name, pid, detected, sid) ==
    MT_sendEvent(IF ~m.isInitialized
                 THEN MT_initialize(m, NoValue, pid, detected, sid)
                 ELSE m, name)

\* the beforeunload listener of initialize: the whole queue goes in a beacon,
\* which the backend accepts or never receives
MT_beforeUnload(m, accepted) ==
    [m EXCEPT !.unloaded = TRUE,
              !.delivered = IF /\ m.unloadListeners > 0 /\ Len(m.eventQueue) > 0
                               /\ accepted
                            THEN Accept(@, m.eventQueue) ELSE @]

\* the video trackers and the GA4 client stay as they are
TrackerIdle ==
    UNCHANGED <<variant, source, sessionState, videoState, timers, sink, ghost, ga>>

\* a study script calls window.MongoTracker.initialize(studyType)
MT_Initialize ==
    /\ ~mt.unloaded
    /\ Len(mt.events) + 2 <= MaxEvents \/ mt.isInitialized
    /\ \E studyType \in {NoValue, "feed_video"}, pid \in ParticipantIds,
          detected \in StudyTypes, sid \in SessionIds :
          mt' = MT_initialize(mt, studyType, pid, detected, sid)
    /\ TrackerIdle

\* a study script calls window.MongoTracker.track(name, ...)
MT_Track ==
    /\ ~mt.unloaded
    /\ Len(mt.events) + (IF mt.isInitialized THEN 1 ELSE 3) <= MaxEvents
    /\ \E name \in MT_Names, pid \in ParticipantIds,
          detected \in StudyTypes, sid \in SessionIds :
          mt' = MT_track(mt, name, pid, detected, sid)
    /\ TrackerIdle

\* the fetch of sendEvent settles
MT_SendResponse ==
    /\ ~mt.unloaded
    /\ \E r \in mt.inflight, outcome \in Outcomes :
          /\ r.kind = "single"
          /\ mt' = MT_sendEvent_response(mt, r.events[1], outcome)
    /\ TrackerIdle

\* the setInterval timer of initialize fires
MT_BatchTimer ==
    /\ ~mt.unloaded
    /\ mt.intervals > 0
    /\ mt.batches < MaxBatches
    /\ mt' = MT_sendBatch(mt)
    /\ TrackerIdle

\* the fetch of sendBatch settles
MT_BatchResponse ==
    /\ ~mt.unloaded
    /\ \E r \in mt.inflight, outcome \in Outcomes :
          /\ r.kind = "batch"
          /\ mt' = MT_sendBatch_response(mt, r, outcome)
    /\ TrackerIdle

\* the page unloads; none of its callbacks runs afterwards
MT_BeforeUnload ==
    /\ ~mt.unloaded
    /\ \E accepted \in BOOLEAN : mt' = MT_beforeUnload(mt, accepted)
    /\ TrackerIdle

InitMongoTracker == Init /\ variant = "mongo"

NextMongoTracker ==
    \/ MT_Initialize
    \/ MT_Track
    \/ MT_SendResponse
    \/ MT_BatchTimer
    \/ MT_BatchResponse
    \/ MT_BeforeUnload

SpecMongoTracker == InitMongoTracker /\ [][NextMongoTracker]_vars

\* ================================================================ properties

\* the sink's number of video-start events, under either name
StartCount == sink.count["video_start"] + sink.count["feed_video_start"]

\* the states a source notifies
SourceStates == {"playing", "paused", "ended", "buffering"}

\* C1: in the GA4 trackers at most one video_session_complete is emitted per
\* page session, whatever teardown signals arrive, in whatever order and number,
\* between whatever playback events.
C1_AtMostOneSessionComplete ==
    Ga4 => sink.count["video_session_complete"] <= 1

\* a GA4 session whose summary was sent and which then saw a further teardown signal
C1_Witness ==
    Ga4 /\ sink.count["video_session_complete"] = 1 /\ ghost.repeated

\* C2: in the GA4 trackers, over sequences of play and pause notifications
\* followed by the teardown, the total held when the final report is made equals
\* the sum of max(0, end - start) over the play intervals, each counted once, the
\* end being the clock reading of the pause, or of the teardown, that closed it.
C2_TotalIsSumOfIntervals ==
    [][(/\ Ga4
        /\ ~sessionState.hasReportedFinalResults
        /\ sessionState'.hasReportedFinalResults
        /\ ~ghost'.ended)
         => sessionState'.totalWatchTimeSeconds = ghost'.expected]_vars

\* C3: in the GA4 trackers an ended notification handled while a play interval
\* is open adds max(0, now - currentPlayStartTime) to totalWatchTimeSeconds, as
\* a pause does, and clears currentPlayStartTime.
C3_EndedAccumulatesLikePause ==
    (/\ Ga4 /\ sessionState.isTrackingEnabled
     /\ sessionState.currentPlayStartTime # NULL
     /\ source.state = "playing" /\ source.currentTime = VideoLen)
      => \A t \in Times :
            LET w == Notify([WorldAt(t) EXCEPT !.source.state = "ended"], "ended")
            IN /\ w.sessionState.totalWatchTimeSeconds =
                      sessionState.totalWatchTimeSeconds
                          + Max(0, t - sessionState.currentPlayStartTime)
               /\ w.sessionState.currentPlayStartTime = NULL

\* C4: in every variant milestonesReached only grows, and the progress event of
\* each of 25, 50, 75 and 100 is emitted at most once per session, whether a poll
\* tick or the ended notification detects it.
C4_MilestonesOnce ==
    /\ [](\A m \in Milestones : sink.progress[m] <= 1)
    /\ [][/\ sessionState.milestonesReached \subseteq sessionState'.milestonesReached
          /\ Len(videoState.milestonesReached) <= Len(videoState'.milestonesReached)
          /\ SubSeq(videoState'.milestonesReached, 1, Len(videoState.milestonesReached))
                 = videoState.milestonesReached]_vars

\* every milestone was emitted once in a session that played to the end, was
\* replayed and reached the end again
C4_Witness ==
    /\ \A m \in Milestones : sink.progress[m] = 1
    /\ sessionState.completionCount = 2

\* C5: in every variant the video-start event is emitted exactly once per
\* session: by the first play transition handled with tracking enabled (by the
\* first trackVideoStart call of the tracking functions), and never again.
C5_StartExactlyOnce ==
    StartCount = IF variant = "api"
                 THEN (IF videoState.isStarted THEN 1 ELSE 0)
                 ELSE (IF sessionState.playCount >= 1 THEN 1 ELSE 0)

\* one start event after a pause, a completion and a replay
C5_Witness ==
    /\ StartCount = 1
    /\ sessionState.playCount = 2
    /\ sessionState.completionCount >= 1
    /\ sessionState.totalWatchTimeSeconds > 0

\* C6: in the GA4 trackers a play transition handled with tracking enabled adds
\* exactly 1 to playCount and emits exactly one video_play, carrying the new
\* playCount and is_replay = (playCount > 1); so playCount is the number of
\* video_play events emitted and is_replay is false exactly for the first.
C6_PlayCountsPlays ==
    Ga4 =>
      /\ sink.count["video_play"] = sessionState.playCount
      /\ sessionState.isTrackingEnabled =>
           \A t \in Times :
              LET w == Notify([WorldAt(t) EXCEPT !.source.state = "playing"],
                              "playing")
                  plays == Calls(w, "video_play")
              IN /\ w.sessionState.playCount = sessionState.playCount + 1
                 /\ w.sink.count["video_play"] = sink.count["video_play"] + 1
                 /\ Len(plays) = 1
                 /\ plays[1].payload.play_count = w.sessionState.playCount
                 /\ plays[1].payload.is_replay = (w.sessionState.playCount > 1)
                 /\ plays[1].payload.is_replay = (sessionState.playCount # 0)

\* a GA4 session with a first play and a replay
C6_Witness ==
    Ga4 /\ sessionState.playCount = 2 /\ sink.count["video_play"] = 2

\* C7: in the database-backed YouTube tracker at most one feed_video_summary is
\* emitted when beforeunload and pagehide both fire, or either fires again,
\* after the video has started.
C7_AtMostOneSummary ==
    variant = "mongo" => sink.count["feed_video_summary"] <= 1

\* C8: in the GA4 trackers currentPlayStartTime is non-null only if
\* isTrackingEnabled is true.
C8_OpenIntervalImpliesEnabled ==
    Ga4 => (sessionState.currentPlayStartTime # NULL
              => sessionState.isTrackingEnabled)

\* a GA4 session with an open play interval
C8_Witness ==
    Ga4 /\ sessionState.currentPlayStartTime # NULL /\ source.state = "playing"

\* C9: while tracking is not enabled every callback of the playback source
\* (play, pause, ended, a state change, timeupdate, volumechange) changes no
\* field of the session state and emits nothing.
C9_DisabledIgnoresCallbacks ==
    (variant # "api" /\ ~sessionState.isTrackingEnabled) =>
      /\ \A t \in Times, data \in SourceStates :
            LET w == Notify([WorldAt(t) EXCEPT !.source.state = data], data)
            IN w.sessionState = sessionState /\ w.out = <<>>
      /\ variant = "dom" =>
           /\ \A p \in 0..VideoLen :
                 LET w == Dom_handleTimeUpdate([World EXCEPT !.source.currentTime = p])
                 IN w.sessionState = sessionState /\ w.out = <<>>
           /\ \A m \in BOOLEAN :
                 LET w == Dom_handleVolumeChange([World EXCEPT !.source.muted = m])
                 IN w.sessionState = sessionState /\ w.out = <<>>

\* C10: in every variant with a playback source, a play notification arriving
\* while tracking is not enabled is reverted by pausing the source, so the source
\* is never left playing while the tracker is disabled.
C10_DisabledNeverPlaying ==
    (variant # "api" /\ ~sessionState.isTrackingEnabled)
        => source.state # "playing"

\* reportFinalResults of the GA4 tracker the page loaded
Ga4_reportFinalResults(w) ==
    IF variant = "dom" THEN Dom_reportFinalResults(w) ELSE YT_reportFinalResults(w)

\* the guard of reportFinalResults lets the call through
ReportGuardPasses ==
    /\ sessionState.isTrackingEnabled
    /\ sessionState.hasStartedOnce
    /\ ~sessionState.hasReportedFinalResults

\* C11: in the GA4 trackers reportFinalResults changes no session field and
\* emits nothing unless isTrackingEnabled and hasStartedOnce are true and
\* hasReportedFinalResults is false; hasReportedFinalResults is never reset
\* once true, and no video_session_complete is emitted in a state where it is
\* already true.
C11_ReportGuard ==
    /\ []((Ga4 /\ ~ReportGuardPasses) =>
            \A t \in Times :
               LET w == Ga4_reportFinalResults(WorldAt(t))
               IN w.sessionState = sessionState /\ w.out = <<>> /\ w.sink = sink)
    /\ [][(Ga4 /\ sessionState.hasReportedFinalResults) =>
             /\ sessionState'.hasReportedFinalResults
             /\ sink'.count["video_session_complete"]
                    = sink.count["video_session_complete"]]_vars

\* a GA4 session that reported with a rounded total of 0 seconds, emitted no
\* summary then, received a further teardown signal and still has emitted none
C11_Witness ==
    /\ Ga4 /\ sessionState.hasReportedFinalResults /\ ghost.repeated
    /\ sink.count["video_session_complete"] = 0
    /\ sessionState.playCount >= 1

\* C12: in the GA4 trackers, when the duration is 0 for the whole session no
\* video_progress event is emitted for any milestone value, 100 included, over
\* any sequence of play, pause, ended and poll events.
C12_NoMilestoneWithoutDuration ==
    (Ga4 /\ sessionState.duration = 0) =>
        \A m \in Milestones : sink.progress[m] = 0

\* C12 as the code has it: with a duration of 0 no poll is started and no
\* video_progress is emitted for 25, 50 or 75; the ended handler still records
\* 100 and emits its video_progress, once.
C12_NoPolledMilestoneWithoutDuration ==
    (Ga4 /\ sessionState.duration = 0) =>
        /\ timers.poll = 0
        /\ \A m \in Milestones \ {100} :
              sink.progress[m] = 0 /\ m \notin sessionState.milestonesReached
        /\ sink.progress[100] = (IF sessionState.completionCount >= 1 THEN 1 ELSE 0)

\* a session of unknown duration that played through every threshold to the end
C12_Witness ==
    /\ Ga4 /\ sessionState.duration = 0
    /\ source.state = "ended" /\ source.currentTime = VideoLen
    /\ sessionState.milestonesReached = {100}
    /\ sink.progress[100] = 1

\* C13: in the GA4 trackers, when the duration is 0 the final report divides
\* nothing by the duration: the completion rate and the max-progress percent of
\* the video_session_complete it emits are both the guarded value 0.
C13_NoDivisionByZeroDuration ==
    (Ga4 /\ sessionState.duration = 0 /\ ReportGuardPasses) =>
        \A t \in Times :
           LET sent == Calls(Ga4_reportFinalResults(WorldAt(t)),
                             "video_session_complete")
           IN \A i \in 1..Len(sent) :
                 /\ sent[i].payload.completion_rate_percent = 0
                 /\ sent[i].payload.max_progress_percent = Finite(0)

\* the completion rate the final report derives from the largest position P, in
\* seconds, that the session observed: clamp(0, 100, P / duration * 100), rounded
CompletionRateOf(P, duration) ==
    IF duration > 0 THEN Round(Min(100 * duration, P * 100), duration) ELSE 0

\* C14: in the GA4 trackers, with a duration above 0, the completion rate of
\* the final report is clamp(0, 100, P / duration * 100) rounded, where P is the
\* largest playback position in seconds observed in the session.
C14_CompletionRateFromPosition ==
    (Ga4 /\ sessionState.duration > 0 /\ ReportGuardPasses) =>
        \A t \in Times :
           LET sent == Calls(Ga4_reportFinalResults(WorldAt(t)),
                             "video_session_complete")
           IN \A i \in 1..Len(sent) :
                 sent[i].payload.completion_rate_percent =
                     CompletionRateOf(ghost.maxPos, sessionState.duration)

\* C15: in the GA4 trackers, maxProgressReached is the high-water mark of the
\* playback position in seconds: it equals the largest position read by any
\* handled timeupdate or poll tick, and it never decreases.
C15_MaxProgressIsHighWaterMark ==
    /\ [](Ga4 => sessionState.maxProgressReached =
                    ghost.maxPos * Scale(sessionState.duration))
    /\ [][sessionState'.maxProgressReached >= sessionState.maxProgressReached]_vars

\* C16: in the GA4 trackers, a reportFinalResults that passes its guard emits
\* exactly one video_session_complete, carrying the rounded total, when the
\* total watch time with the trailing interval rounds to more than 0 seconds,
\* and emits nothing when it rounds to 0; the sink receives a
\* video_session_complete only with such a total.
C16_ReportEmitsIffWatched ==
    /\ []((Ga4 /\ ReportGuardPasses) =>
            \A t \in Times :
               LET cps == sessionState.currentPlayStartTime
                   total == sessionState.totalWatchTimeSeconds
                              + (IF Falsy(cps) THEN 0 ELSE Max(0, t - cps))
                   rounded == Round(total, MsPerSecond)
                   w == Ga4_reportFinalResults(WorldAt(t))
                   sent == Calls(w, "video_session_complete")
               IN /\ Len(w.out) = Len(sent)
                  /\ Len(sent) = (IF rounded > 0 THEN 1 ELSE 0)
                  /\ \A i \in 1..Len(sent) :
                        sent[i].payload.total_watch_time_seconds = rounded)
    /\ [][(Ga4 /\ sink'.count["video_session_complete"]
                     # sink.count["video_session_complete"]) =>
            /\ ReportGuardPasses
            /\ sink'.count["video_session_complete"]
                  = sink.count["video_session_complete"] + 1
            /\ Round(sessionState'.totalWatchTimeSeconds, MsPerSecond) > 0]_vars

C16_Witness ==
    /\ Ga4 /\ sessionState.hasReportedFinalResults
    /\ sessionState.totalWatchTimeSeconds = 2 * Tick
    /\ sink.count["video_session_complete"] = 1

\* C17: in the GA4 trackers, a pause notification that arrives while no play
\* interval is open (currentPlayStartTime is null) is a no-op: no field of the
\* session state changes and no video_pause is emitted.
C17_IdlePauseIsNoOp ==
    /\ []((Ga4 /\ Falsy(sessionState.currentPlayStartTime)) =>
            \A t \in Times :
               LET w == Notify([WorldAt(t) EXCEPT !.source.state = "paused"], "paused")
               IN w.sessionState = sessionState /\ w.out = <<>> /\ w.sink = sink)
    /\ [][ghost'.idlePause => (sessionState' = sessionState /\ sink' = sink)]_vars

C17_Witness ==
    /\ Ga4 /\ ghost.idlePause /\ sessionState.hasStartedOnce
    /\ source.state = "paused" /\ sessionState.currentPlayStartTime = NULL
    /\ sessionState.playCount = 1 /\ sessionState.totalWatchTimeSeconds = Tick

\* C18: in the GA4 trackers, a pause notification that closes an open interval
\* emits video_pause whose session_watch_time is the delta
\* max(0, now - currentPlayStartTime) just added, rounded and never negative,
\* and whose total_watch_time is the accumulated total after the addition, rounded.
C18_PauseReportsDelta ==
    (/\ Ga4 /\ sessionState.isTrackingEnabled
     /\ source.state = "playing"
     /\ ~Falsy(sessionState.currentPlayStartTime)) =>
        \A t \in Times :
           LET delta == Max(0, t - sessionState.currentPlayStartTime)
               w == Notify([WorldAt(t) EXCEPT !.source.state = "paused"], "paused")
               sent == Calls(w, "video_pause")
           IN /\ Len(sent) = 1
              /\ w.sessionState.totalWatchTimeSeconds =
                     sessionState.totalWatchTimeSeconds + delta
              /\ sent[1].payload.session_watch_time = Round(delta, MsPerSecond)
              /\ sent[1].payload.session_watch_time >= 0
              /\ sent[1].payload.total_watch_time =
                     Round(sessionState.totalWatchTimeSeconds + delta, MsPerSecond)

\* C19: in the GA4 trackers, completionCount never decreases and grows by
\* exactly 1 with each ended notification handled while tracking is enabled, and
\* by nothing else; once it is k >= 1, video_progress for milestone 100 has been
\* emitted exactly once, and before that not at all.
C19_CompletionsCounted ==
    /\ [](Ga4 => sink.progress[100] =
                    (IF sessionState.completionCount >= 1 THEN 1 ELSE 0))
    /\ []((Ga4 /\ sessionState.isTrackingEnabled) =>
            \A t \in Times :
               LET w == Notify([WorldAt(t) EXCEPT !.source.state = "ended"], "ended")
               IN w.sessionState.completionCount = sessionState.completionCount + 1)
    /\ [][Ga4 =>
            sessionState'.completionCount =
                sessionState.completionCount
                  + (IF /\ sessionState.isTrackingEnabled
                        /\ source.state # "ended" /\ source'.state = "ended"
                     THEN 1 ELSE 0)]_vars

C19_Witness ==
    /\ Ga4 /\ sessionState.completionCount = 2 /\ sink.progress[100] = 1
    /\ source.state = "ended"

\* the total watch time a task of a GA4 tracker leaves behind
TotalAfter(w) == w.sessionState.totalWatchTimeSeconds

\* C20: in the GA4 trackers, totalWatchTimeSeconds never decreases and changes
\* only in a handler that closes an open play interval (pause, ended or the
\* teardown report); the play, poll, timeupdate and mute handlers leave it
\* unchanged.
C20_TotalOnlyGrowsOnClose ==
    /\ [][Ga4 =>
            /\ sessionState'.totalWatchTimeSeconds >= sessionState.totalWatchTimeSeconds
            /\ sessionState'.totalWatchTimeSeconds # sessionState.totalWatchTimeSeconds =>
                  /\ ~Falsy(sessionState.currentPlayStartTime)
                  /\ \/ sessionState'.currentPlayStartTime = NULL
                     \/ /\ ~sessionState.hasReportedFinalResults
                        /\ sessionState'.hasReportedFinalResults]_vars
    /\ [](Ga4 =>
            LET total == sessionState.totalWatchTimeSeconds
            IN /\ \A t \in Times :
                     TotalAfter(Notify([WorldAt(t) EXCEPT !.source.state = "playing"],
                                       "playing")) = total
               /\ timers.poll > 0 =>
                     TotalAfter(IF variant = "dom" THEN Dom_checkMilestones(World)
                                ELSE YT_checkMilestones(World)) = total
               /\ variant = "dom" =>
                     /\ \A p \in 0..VideoLen :
                           TotalAfter(Dom_handleTimeUpdate(
                               [World EXCEPT !.source.currentTime = p])) = total
                     /\ TotalAfter(Dom_handleVolumeChange(
                            [World EXCEPT !.source.muted = ~@])) = total
               /\ TotalAfter(IF variant = "dom" THEN Dom_toggleMute(World)
                             ELSE YT_toggleMute(World)) = total)

C20_Witness ==
    /\ Ga4 /\ sessionState.totalWatchTimeSeconds = Tick
    /\ sessionState.playCount = 2 /\ source.state = "playing"
    /\ sessionState.currentPlayStartTime # NULL /\ timers.poll > 0

\* C21: in the GA4 DOM-video tracker, video_mute_toggle is edge-triggered: a
\* volumechange callback emits it, once and with the value read, when the muted
\* value read from the source differs from the recorded one, and emits nothing
\* when the two are equal.
C21_MuteToggleEdgeTriggered ==
    variant = "dom" =>
        \A m \in BOOLEAN :
           LET w == Dom_handleVolumeChange([World EXCEPT !.source.muted = m])
               sent == Calls(w, "video_mute_toggle")
           IN /\ Len(w.out) = Len(sent)
              /\ Len(sent) = (IF m # sessionState.isMuted THEN 1 ELSE 0)
              /\ \A i \in 1..Len(sent) : sent[i].payload.is_muted = m
              /\ w.sessionState.isMuted = m

C21_Witness ==
    /\ variant = "dom" /\ ~timers.tapped
    /\ ~source.muted /\ ~sessionState.isMuted

\* C22: in the GA4 DOM-video tracker, after tracking is enabled every change of
\* the video's mute state - through VideoTracker.toggleMute, by the automatic
\* unmute of the autoplay sequence, or on the media element itself - results
\* in exactly one video_mute_toggle once its volumechange callback has run.
C22_EveryMuteChangeReported ==
    (variant = "dom" /\ sessionState.isTrackingEnabled) =>
        /\ Len(Calls(Dom_toggleMute(World), "video_mute_toggle")) = 1
        /\ (timers.unmute /\ source.muted) =>
              Len(Calls(Dom_unmuteTimer(World), "video_mute_toggle")) = 1
        /\ Len(Calls(Dom_handleVolumeChange([World EXCEPT !.source.muted = ~@]),
                     "video_mute_toggle")) = 1

\* what enabling tracking leaves behind: enableTracking() of the DOM and the
\* database trackers, startVideoWithAutoplay() of the YouTube GA4 tracker
EnableResult(played) ==
    CASE variant = "dom"   -> Dom_enableTracking(World, played)
      [] variant = "yt"    -> YT_startVideoWithAutoplay(World, played)
      [] variant = "mongo" -> Mongo_enableTracking(World, played)

\* the task that enables tracking and requests playback is about to run
EnablePending ==
    /\ variant \in {"dom", "yt", "mongo"} /\ source.ready
    /\ IF variant = "mongo" THEN ~timers.tapped ELSE timers.start

\* C23: in every tracker variant, enabling tracking follows the muted-first
\* autoplay order: the source is muted when play is requested, and the unmute
\* is only scheduled for later, and only when the play attempt succeeded.
C23_MutedFirstAutoplay ==
    EnablePending =>
        \A played \in BOOLEAN :
           LET w == EnableResult(played)
           IN /\ w.source.muted
              /\ w.timers.unmute => (played /\ w.source.state = "playing")


\* C24: GALite.track retries rather than drops: a call made while GA4 is
\* loaded is passed to gtag at once; a call made before is kept on a retry
\* timer, never dropped and never duplicated, is passed to gtag only once GA4
\* is loaded, and then eventually is passed, exactly once.
C24_TrackRetriesUntilLoaded ==
    /\ [](\A i \in 1..Len(ga.tracked) :
             /\ Occurrences(ga.dataLayer, i) + Occurrences(ga.retry, i) = 1
             /\ Occurrences(ga.dataLayer, i) = 1 => ga.isLoaded)
    /\ [][(ga.isLoaded /\ Len(ga'.tracked) = Len(ga.tracked) + 1) =>
             ga'.dataLayer = Append(ga.dataLayer, Len(ga'.tracked))]_vars
    /\ \A i \in 1..MaxTracked :
          (Len(ga.tracked) >= i /\ ga.isLoaded)
              ~> (Occurrences(ga.dataLayer, i) = 1)

C24_Witness ==
    /\ ga.isLoaded /\ ga.retry = <<>> /\ ga.dataLayer = <<2, 1>>

\* C25: the final teardown summary is sent with a single best-effort attempt:
\* when GA4 is not available as reportFinalResults tracks video_session_complete,
\* no retry of the summary is scheduled.
C25_SummaryNotRetried ==
    \A k \in 1..Len(ga.retry) :
       ga.tracked[ga.retry[k]] # "video_session_complete"

\* A task in which the read of the player's position throws.  world: the page
\* as the task leaves it; escaped: the exception leaves the callback uncaught.

\* checkMilestones of the GA4 YouTube tracker when getCurrentTime() throws: the
\* closure has no try block, the throw ends it before any write and before the
\* setTimeout that would continue the polling
YT_checkMilestones_ReadThrows(w) ==
    [world |-> w, escaped |-> w.sessionState.isTrackingEnabled]

\* checkMilestones of the database tracker when getCurrentTime() throws: the
\* catch block logs the error; the setTimeout inside the try block is skipped
Mongo_checkMilestones_ReadThrows(w) ==
    [world |-> w, escaped |-> FALSE]

\* onPlayerStateChange of the GA4 YouTube tracker when getCurrentTime() throws:
\* past the isTrackingEnabled branch nothing catches it
YT_onPlayerStateChange_ReadThrows(w, data) ==
    IF ~w.sessionState.isTrackingEnabled
    THEN [world |-> YT_onPlayerStateChange(w, data), escaped |-> FALSE]
    ELSE [world |-> w, escaped |-> TRUE]

\* C26: a read from the Playback Source that throws during a milestone poll
\* tick or a state-change callback is a no-op for that tick only: no exception
\* escapes the handler, the session state is unchanged, and while the video is
\* still playing the milestone polling continues with a next tick.
C26_ThrowingReadIsLocalNoOp ==
    (variant \in {"yt", "mongo"} /\ sessionState.isTrackingEnabled) =>
        /\ timers.poll > 0 =>
              LET w0 == [World EXCEPT !.timers.poll = @ - 1]
                  r == IF variant = "yt" THEN YT_checkMilestones_ReadThrows(w0)
                       ELSE Mongo_checkMilestones_ReadThrows(w0)
              IN /\ ~r.escaped
                 /\ r.world.sessionState = sessionState
                 /\ source.state = "playing" => r.world.timers.poll >= 1
        /\ variant = "yt" =>
              \A t \in Times, data \in {"playing", "paused", "ended"} :
                 LET r == YT_onPlayerStateChange_ReadThrows(
                              [WorldAt(t) EXCEPT !.source.state = data], data)
                 IN ~r.escaped /\ r.world.sessionState = sessionState

\* C27: anti-pause: in the GA4 DOM-video tracker, once tracking is enabled and
\* the video has started, a pause by the user is reverted within its pause
\* callback, so that before the video ends the source is never left paused.
C27_PauseIsReverted ==
    (/\ variant = "dom" /\ sessionState.isTrackingEnabled
     /\ sessionState.hasStartedOnce /\ sessionState.completionCount = 0)
        => source.state # "paused"

\* C28: in the GA4 trackers, milestone polling is active whenever the session
\* is Playing: in every reachable state with tracking enabled, a duration above
\* 0 and the video playing - also after a pause and resume and after a replay -
\* a checkMilestones tick is pending.
C28_PollingWhilePlaying ==
    (/\ Ga4 /\ sessionState.isTrackingEnabled /\ sessionState.duration > 0
     /\ source.state = "playing")
        => timers.poll >= 1

\* C29: in every tracker variant, milestone polling never runs concurrently
\* with itself: in every reachable state at most one checkMilestones callback
\* is pending, over any sequence of play, pause, ended, replay and tick events.
C29_AtMostOnePollPending == timers.poll <= 1

C29_Witness ==
    /\ variant \in {"dom", "yt"} /\ timers.poll = 1
    /\ source.state = "playing"
    /\ sessionState.completionCount = 1 /\ sessionState.playCount = 2

\* C30: in the database-backed YouTube tracker, milestone tracking is started
\* for the session: in the normal order of events (player ready with a known
\* duration, then the tap that enables tracking and starts playback) a
\* checkMilestones tick is pending once the video plays, which is what lets the
\* feed_video_progress of a threshold passed while playing be emitted.
C30_MongoPollingStarted ==
    [][(/\ variant = "mongo" /\ source.ready /\ sessionState.duration > 0
        /\ ~sessionState.isTrackingEnabled /\ sessionState'.isTrackingEnabled
        /\ source'.state = "playing")
          => timers'.poll >= 1]_vars

\* C31: in the GA4 trackers, reportFinalResults accumulates the trailing
\* interval as the pause handler does: the step that makes the final report
\* leaves currentPlayStartTime null, so that no later pause, ended or teardown
\* event adds the interval it has counted again.
C31_ReportClosesInterval ==
    [][(/\ Ga4
        /\ ~sessionState.hasReportedFinalResults
        /\ sessionState'.hasReportedFinalResults)
          => Falsy(sessionState'.currentPlayStartTime)]_vars

\* C32: in the database-backed YouTube tracker, the trailing play interval is
\* added at most once during teardown: when handleUnload runs twice
\* (beforeunload, then pagehide) with a play interval open and the playback
\* position unchanged, the total reported by the second call is not larger
\* than the total reported by the first.
C32_UnloadAddsTrailingOnce ==
    (/\ variant = "mongo" /\ sessionState.isTrackingEnabled
     /\ sessionState.hasStartedOnce /\ sessionState.currentPlayStartTime # NULL) =>
        LET w1 == Mongo_handleUnload(World)
            w2 == Mongo_handleUnload([w1 EXCEPT !.out = <<>>])
            first == Calls(w1, "feed_video_summary")
            second == Calls(w2, "feed_video_summary")
        IN /\ Len(first) = 1 /\ Len(second) = 1
           /\ second[1].payload.total_watch_time_seconds
                 <= first[1].payload.total_watch_time_seconds

\* C33: in the GA4 YouTube tracker, a play transition is taken only from Idle,
\* Paused or Ended: a PLAYING notification that arrives while a play interval
\* is open (PLAYING, BUFFERING, PLAYING with no PAUSED between) neither
\* increments playCount nor discards the time elapsed since the interval opened.
C33_PlayingWhileOpenIsIgnored ==
    (/\ variant = "yt" /\ sessionState.isTrackingEnabled
     /\ source.state = "buffering"
     /\ ~Falsy(sessionState.currentPlayStartTime)) =>
        \A t \in Times :
           LET w == Notify([WorldAt(t) EXCEPT !.source.state = "playing"], "playing")
           IN /\ w.sessionState.playCount = sessionState.playCount
              /\ w.sessionState.currentPlayStartTime = sessionState.currentPlayStartTime

\* C34: in the database-backed YouTube tracker, currentPlayStartTime is
\* non-null only while the video is playing: every handled PAUSED or ENDED
\* state change leaves it null, also a pause at a position not greater than
\* the position at which the interval was opened.
C34_MongoPauseClosesInterval ==
    (/\ variant = "mongo" /\ sessionState.isTrackingEnabled
     /\ source.state = "playing") =>
        \A data \in {"paused", "ended"} :
           LET w == Notify([World EXCEPT !.source.state = data], data)
           IN w.sessionState.currentPlayStartTime = NULL

\* C35: in the GA4 trackers milestonesReached is downward-closed in every
\* reachable state: when a value is in the set, every smaller value of
\* {25, 50, 75, 100} is in it too, so no final report has milestone 100
\* reached with 25, 50 or 75 not reached.
C35_MilestonesDownwardClosed ==
    Ga4 => \A m \in sessionState.milestonesReached :
              \A k \in Milestones :
                 k < m => k \in sessionState.milestonesReached

\* C36: GALite.track preserves order: of two events tracked one after the
\* other, whenever GA4 becomes loaded, gtag receives the earlier one before
\* the later one (dataLayer holds the call numbers in increasing order).
C36_TrackPreservesOrder ==
    \A j, k \in 1..Len(ga.dataLayer) :
       j < k => ga.dataLayer[j] < ga.dataLayer[k]

\* the event of index e is in the sequence of event indices q
InSeq(q, e) == \E i \in 1..Len(q) : q[i] = e

\* how many of the events sendEvent built have the name
Built(name) ==
    Cardinality({e \in 1..Len(mt.events) : mt.events[e].event_name = name})

\* C37: MongoTracker delivers each tracked event to the backend at most once:
\* whatever the interleaving of the immediate send of sendEvent, the sendBatch
\* timer and their responses, no event is in more than one successful request
\* (the beacon of the unloading page is left aside).
C37_DeliveredAtMostOnce ==
    ~mt.unloaded => \A e \in 1..Len(mt.events) : mt.delivered[e] <= 1

\* C38: MongoTracker loses no event: a failed immediate send leaves eventQueue
\* as it is, a failed batch request puts its events back at the front of
\* eventQueue, and every event that no successful request has carried is in
\* eventQueue or in a request in flight.
C38_NoEventLost ==
    /\ \A e \in 1..Len(mt.events) :
          mt.delivered[e] = 0 =>
             \/ InSeq(mt.eventQueue, e)
             \/ \E r \in mt.inflight : InSeq(r.events, e)
    /\ \A r \in mt.inflight :
          /\ r.kind = "single" =>
                MT_sendEvent_response(mt, r.events[1], "failed").eventQueue
                   = mt.eventQueue
          /\ r.kind = "batch" =>
                MT_sendBatch_response(mt, r, "failed").eventQueue
                   = r.events \o mt.eventQueue

\* an event both of whose sends failed, the immediate one and one batch, is
\* back in eventQueue
C38_Witness ==
    \E e \in 1..Len(mt.events) :
       /\ mt.delivered[e] = 0 /\ mt.resent[e] >= 1
       /\ InSeq(mt.eventQueue, e)
       /\ \A r \in mt.inflight : ~InSeq(r.events, e)

\* C39: MongoTracker bounds its retries: an event whose sends keep failing is
\* sent again at most MAX_RETRIES times.
C39_RetriesBounded ==
    \A e \in 1..Len(mt.events) :
       mt.delivered[e] = 0 => mt.resent[e] <= MAX_RETRIES

\* C40: MongoTracker.initialize is idempotent: over any calls of initialize
\* and track one batch timer is started, a further initialize changes
\* nothing, sessionId, participantId and studyType are those every event was
\* built with, page_view and session_start are each built once, and every
\* event carries a session_id that is not null.
C40_InitializeIdempotent ==
    /\ mt.intervals = (IF mt.isInitialized THEN 1 ELSE 0)
    /\ Built("page_view") = mt.intervals
    /\ Built("session_start") = mt.intervals
    /\ mt.isInitialized =>
          \A studyType \in {NoValue, "feed_video"}, pid \in ParticipantIds,
             detected \in StudyTypes, sid \in SessionIds :
             MT_initialize(mt, studyType, pid, detected, sid) = mt
    /\ \A e \in 1..Len(mt.events) :
          /\ mt.events[e].session_id # NoValue
          /\ mt.events[e].session_id = mt.sessionId
          /\ mt.events[e].participant_id = mt.participantId
          /\ mt.events[e].study_type = mt.studyType

\* track was called before any initialize, and an event was tracked
C40_Witness ==
    /\ mt.isInitialized /\ mt.studyType = "unknown"
    /\ \E e \in 1..Len(mt.events) : mt.events[e].event_name \in MT_Names

====
